---- MODULE Spec2Model ----
(***************************************************************************)
(* wikiplum: a static site generator (markdown tree -> HTML tree with a    *)
(* navigation sidebar, plus a static asset copy) and a frontmatter HTTP    *)
(* handler in a local and a remote variant.                                *)
(*                                                                         *)
(* Go strings and paths are sequences of one-character strings, so that    *)
(* the substring, suffix and path operations of the code are computed      *)
(* character by character as the library computes them.                    *)
(***************************************************************************)
EXTENDS Integers, Sequences, FiniteSets, TLC

VARIABLES
    md, html, html2, mdpc,          \* markdown rewrite: input, results, position
    content, currentPath, items, walkErrAt,  \* sidebar: tree, page, result, failing walk entry
    static, fs, pc, pos, exit, log,          \* build: static tree, build tree on disk, main's position,
                                             \* walk position, exit code, record of the run
    request, response               \* API handler: the request with what the store
                                    \* answers, and the response written

mdVars == <<md, html, html2, mdpc>>
sidebarVars == <<content, currentPath, items, walkErrAt>>

buildVars == <<static, fs, pc, pos, exit, log>>

apiVars == <<request, response>>

vars == <<mdVars, sidebarVars, buildVars, apiVars>>

None == <<"<none>">>

(***************************************************************************)
(* Package strings                                                         *)
(***************************************************************************)

\* s[from..to], empty when from > to
Slice(s, from, to) == IF from > to THEN <<>> ELSE SubSeq(s, from, to)

\* s[i:] of Go, with i counted from 0
From(s, i) == Slice(s, i + 1, Len(s))

HasPrefix(s, p) == Len(s) >= Len(p) /\ Slice(s, 1, Len(p)) = p

HasSuffix(s, p) == Len(s) >= Len(p) /\ Slice(s, Len(s) - Len(p) + 1, Len(s)) = p

TrimSuffix(s, p) == IF HasSuffix(s, p) THEN Slice(s, 1, Len(s) - Len(p)) ELSE s

TrimPrefix(s, p) == IF HasPrefix(s, p) THEN From(s, Len(p)) ELSE s

\* strings.Index: the 0-based index of the first occurrence of sub, or -1
Index(s, sub) ==
    LET hits == {i \in 0..(Len(s) - Len(sub)) : Slice(s, i + 1, i + Len(sub)) = sub}
    IN  IF hits = {} THEN -1 ELSE CHOOSE i \in hits : \A j \in hits : i <= j

Contains(s, sub) == Index(s, sub) >= 0

\* strings.Replace(s, old, new, 1): only the first occurrence
ReplaceFirst(s, old, new) ==
    LET i == Index(s, old)
    IN  IF i < 0 THEN s ELSE Slice(s, 1, i) \o new \o From(s, i + Len(old))

\* strings.ReplaceAll for a non-empty old: scan left to right, replace each
\* occurrence found and resume after it
RECURSIVE ReplaceAll(_, _, _)
ReplaceAll(s, old, new) ==
    LET i == Index(s, old)
    IN  IF i < 0 THEN s
        ELSE Slice(s, 1, i) \o new \o ReplaceAll(From(s, i + Len(old)), old, new)

\* strings.SplitN for n # 0: at most n pieces when n > 0, the last one the
\* unsplit remainder; every piece when n < 0
RECURSIVE SplitN(_, _, _)
SplitN(s, sep, n) ==
    LET i == Index(s, sep)
    IN  IF n = 1 \/ i < 0 THEN <<s>>
        ELSE <<Slice(s, 1, i)>> \o SplitN(From(s, i + Len(sep)), sep, n - 1)

\* strings.Join
RECURSIVE JoinStr(_, _)
JoinStr(parts, sep) ==
    IF Len(parts) = 0 THEN <<>>
    ELSE IF Len(parts) = 1 THEN parts[1]
    ELSE parts[1] \o sep \o JoinStr(Tail(parts), sep)

\* the characters of the model in byte order; only the order is used
ByteOrder ==
    <<"\n", " ", "-", ".", "/", ":", "a", "b", "c", "d", "e", "h", "i", "k", "l",
      "m", "n", "o", "s", "t", "u", "v", "x">>

ByteRank ==
    [c \in {ByteOrder[i] : i \in 1..Len(ByteOrder)} |->
        CHOOSE i \in 1..Len(ByteOrder) : ByteOrder[i] = c]

Byte(c) == ByteRank[c]

\* a < b, comparing byte by byte (Go's < on strings)
LessStr(a, b) ==
    \E i \in 1..(Len(a) + 1) :
        /\ i <= Len(b)
        /\ \A j \in 1..(i - 1) : a[j] = b[j]
        /\ (i = Len(a) + 1 \/ Byte(a[i]) < Byte(b[i]))

(***************************************************************************)
(* Package path/filepath, for the relative paths the program handles       *)
(***************************************************************************)

Sep == <<"/">>
Dot == <<".">>
DotDot == <<".", ".">>

\* Clean's element loop: drop empty and "." elements, let ".." remove the
\* element before it, keep a ".." that has nothing to remove
RECURSIVE CleanElems(_, _)
CleanElems(elems, out) ==
    IF Len(elems) = 0 THEN out
    ELSE LET e == Head(elems)
         IN  IF e = <<>> \/ e = Dot THEN CleanElems(Tail(elems), out)
             ELSE IF e = DotDot /\ Len(out) > 0 /\ out[Len(out)] # DotDot
                  THEN CleanElems(Tail(elems), Slice(out, 1, Len(out) - 1))
             ELSE CleanElems(Tail(elems), Append(out, e))

\* Clean's result from the elements kept: "." when none is left
CleanJoined(out) == IF out = <<>> THEN Dot ELSE JoinStr(out, Sep)

\* filepath.Clean of a relative path
Clean(path) == CleanJoined(CleanElems(SplitN(path, Sep, -1), <<>>))

\* filepath.Join of two elements
Join(a, b) ==
    IF a = <<>> /\ b = <<>> THEN <<>>
    ELSE IF a = <<>> THEN Clean(b)
    ELSE Clean(a \o Sep \o b)

\* the 1-based position of the last separator of path, 0 when there is none
LastSep(path) ==
    LET at == {i \in 1..Len(path) : path[i] = "/"}
    IN  IF at = {} THEN 0 ELSE CHOOSE i \in at : \A j \in at : j <= i

\* filepath.Dir: all but the last element, cleaned
Dir(path) == Clean(Slice(path, 1, LastSep(path)))

\* path without its trailing separators
RECURSIVE StripTrailingSeps(_)
StripTrailingSeps(path) ==
    IF Len(path) > 0 /\ path[Len(path)] = "/"
    THEN StripTrailingSeps(Slice(path, 1, Len(path) - 1))
    ELSE path

\* Base of a path without trailing separators: what follows the last separator
BaseOfStripped(p) == IF p = <<>> THEN Sep ELSE From(p, LastSep(p))

\* filepath.Base: the last element; "." for the empty path
Base(path) == IF path = <<>> THEN Dot ELSE BaseOfStripped(StripTrailingSeps(path))

\* the length of the longest common prefix of two element lists
RECURSIVE CommonElems(_, _)
CommonElems(bs, ts) ==
    IF Len(bs) > 0 /\ Len(ts) > 0 /\ Head(bs) = Head(ts)
    THEN 1 + CommonElems(Tail(bs), Tail(ts))
    ELSE 0

\* Rel once the common leading elements are dropped: ".." for every element
\* left of the base, then what is left of the target
RelFrom(brest, trest) ==
    IF Len(brest) > 0 /\ brest[1] = DotDot THEN [ok |-> FALSE, path |-> <<>>]
    ELSE IF Len(brest) > 0
         THEN [ok |-> TRUE,
               path |-> JoinStr([i \in 1..Len(brest) |-> DotDot] \o trest, Sep)]
    ELSE [ok |-> TRUE, path |-> JoinStr(trest, Sep)]

RelElems(bs, ts, n) == RelFrom(From(bs, n), From(ts, n))

\* Rel of two cleaned paths; a base of "." has no elements
RelClean(base, targ) ==
    IF targ = base THEN [ok |-> TRUE, path |-> Dot]
    ELSE RelElems(IF base = Dot THEN <<>> ELSE SplitN(base, Sep, -1),
                  SplitN(targ, Sep, -1),
                  CommonElems(IF base = Dot THEN <<>> ELSE SplitN(base, Sep, -1),
                              SplitN(targ, Sep, -1)))

\* filepath.Rel of two relative paths: [ok, path]; the path is empty on error
Rel(basepath, targpath) == RelClean(Clean(basepath), Clean(targpath))

(***************************************************************************)
(* Directory trees and filepath.WalkDir                                    *)
(*                                                                         *)
(* A tree is [dirs, files]: the directories and the regular files below a  *)
(* root, each a list of names from the root (<<>> is the root itself).     *)
(***************************************************************************)

\* the names ReadDir returns for directory d
ReadDir(tree, d) ==
    {p[Len(d) + 1] : p \in {q \in tree.dirs \cup tree.files :
                                Len(q) = Len(d) + 1 /\ Slice(q, 1, Len(d)) = d}}

\* names sorted by file name, as ReadDir returns them
RECURSIVE SortNames(_)
SortNames(names) ==
    IF names = {} THEN <<>>
    ELSE LET first == CHOOSE x \in names : \A y \in names : x = y \/ LessStr(x, y)
         IN  <<first>> \o SortNames(names \ {first})

\* the path WalkDir hands to its callback for the entry d below root
RECURSIVE PathOf(_, _)
PathOf(root, d) ==
    IF Len(d) = 0 THEN root
    ELSE Join(PathOf(root, Slice(d, 1, Len(d) - 1)), d[Len(d)])

\* the entries in the order WalkDir visits them: a directory, then its
\* children in name order, each subdirectory walked before the next sibling
RECURSIVE WalkFrom(_, _, _), WalkChildren(_, _, _, _)
WalkFrom(tree, root, d) ==
    <<[path |-> PathOf(root, d), isDir |-> TRUE]>>
        \o WalkChildren(tree, root, d, SortNames(ReadDir(tree, d)))

WalkChildren(tree, root, d, names) ==
    IF Len(names) = 0 THEN <<>>
    ELSE LET child == Append(d, Head(names))
         IN  (IF child \in tree.dirs
              THEN WalkFrom(tree, root, child)
              ELSE <<[path |-> PathOf(root, child), isDir |-> FALSE]>>)
             \o WalkChildren(tree, root, d, Tail(names))

WalkDir(tree, root) == WalkFrom(tree, root, <<>>)

(***************************************************************************)
(* Markdown renderer                                                       *)
(***************************************************************************)

DotMd == <<".", "m", "d">>
DotHtml == <<".", "h", "t", "m", "l">>

mdLinkToHTMLFirstOnly(m) == ReplaceFirst(m, DotMd, DotHtml)

mdLinkToHTML(m) == ReplaceAll(m, DotMd, DotHtml)

(***************************************************************************)
(* Site builder: constants, output paths, sidebar                          *)
(***************************************************************************)

ContentPath == <<"c", "o", "n", "t", "e", "n", "t">>
BuildPath == <<"b", "u", "i", "l", "d">>
RootPage == <<"i", "n", "d", "e", "x">>

outputPath(mdPath) ==
    Join(BuildPath, TrimSuffix(Rel(ContentPath, mdPath).path, DotMd) \o DotHtml)

\* the variant that only skips the root page of the content root itself
SidebarSkipsRootIndexOnly(root, e) ==
    \/ e.isDir
    \/ e.path = Join(root, RootPage \o DotMd)
    \/ ~HasSuffix(e.path, DotMd)

\* the variant that lists files whatever their suffix
SidebarSkipsKeepsOtherFiles(root, e) == e.isDir \/ Contains(e.path, RootPage)

\* the entries generateSidebar's callback returns early for
SidebarSkips(root, e) ==
    \/ e.isDir
    \/ Contains(e.path, RootPage)
    \/ ~HasSuffix(e.path, DotMd)

\* the NavItem for the stripped link; Src records the file the item was
\* derived from (not a field of the program's NavItem)
NavItemOf(link, path) == [Title |-> Base(link), Link |-> link \o DotHtml, Src |-> path]

\* the variant that links from the content root whatever the page
NavLinkFromRoot(relRoot, rel) == rel

\* the link before its suffix is changed
NavLink(relRoot, rel) == IF relRoot = Dot THEN rel ELSE Join(relRoot, rel)

\* the NavItem appended for one markdown file
NavItem(root, current, path) ==
    NavItemOf(TrimSuffix(NavLink(Rel(Dir(current), root).path, Rel(root, path).path), DotMd),
              path)

\* the callback over the walked entries; the walk stops at the entry whose
\* visit reports an error (errAt, 0 for none) and the items collected so far
\* are kept
RECURSIVE SidebarWalk(_, _, _, _, _, _)
SidebarWalk(entries, i, errAt, root, current, acc) ==
    IF i > Len(entries) \/ i = errAt THEN acc
    ELSE IF SidebarSkips(root, entries[i])
         THEN SidebarWalk(entries, i + 1, errAt, root, current, acc)
    ELSE SidebarWalk(entries, i + 1, errAt, root, current,
                     Append(acc, NavItem(root, current, entries[i].path)))

generateSidebar(tree, root, current, errAt) ==
    SidebarWalk(WalkDir(tree, root), 1, errAt, root, current, <<>>)

(***************************************************************************)
(* Bounded directory trees                                                 *)
(***************************************************************************)

RECURSIVE SubsetsUpTo(_, _)
SubsetsUpTo(S, k) ==
    IF k = 0 THEN {{}}
    ELSE LET smaller == SubsetsUpTo(S, k - 1)
         IN  smaller \cup {T \cup {x} : T \in smaller, x \in S}

\* the tree holding the given files: the root and every directory on the way
\* to a file
TreeOf(files) ==
    [dirs |-> {<<>>} \cup UNION {{Slice(f, 1, n) : n \in 0..(Len(f) - 1)} : f \in files},
     files |-> files]

\* the regular files of a tree whose path ends in .md: the pages of the site
MarkdownFiles(tree, root) ==
    {p \in {PathOf(root, f) : f \in tree.files} : HasSuffix(p, DotMd)}
\* file and directory names of the bounded trees
NameA == <<"a", ".", "m", "d">>
NameIndex == <<"i", "n", "d", "e", "x", ".", "m", "d">>
NameXIndex == <<"x", "i", "n", "d", "e", "x", ".", "m", "d">>
NameTxt == <<"b", ".", "t", "x", "t">>
DirD == <<"d">>
DirE == <<"e">>
DirXMd == <<"x", ".", "m", "d">>

DirStatic == <<"s", "t", "a", "t", "i", "c">>
DirAHtml == <<"a", ".", "h", "t", "m", "l">>
NameCss == <<"s", ".", "c", "s", "s">>
DirCss == <<"c", "s", "s">>
DirImg == <<"i", "m", "g">>

\* p is walked before q: at the first element where they differ, p's name is
\* the smaller one
WalkedBefore(p, q) ==
    LET ps == SplitN(p, Sep, -1)
        qs == SplitN(q, Sep, -1)
        n == CommonElems(ps, qs)
    IN  n < Len(ps) /\ n < Len(qs) /\ LessStr(ps[n + 1], qs[n + 1])

(***************************************************************************)
(* The build tree on disk: [dirs, files], directories as a set of paths and *)
(* files as a function from path to content. A file's content is           *)
(* [kind, page, bytes]: a rendered page, copied bytes, an empty or partly  *)
(* written file, or a file left by an earlier build.                       *)
(***************************************************************************)

NoPage == [Title |-> <<>>, HTML |-> <<>>, Sidebar |-> <<>>, Rel |-> <<>>]

EmptyFile == [kind |-> "empty", page |-> NoPage, bytes |-> <<>>]
StaleFile == [kind |-> "stale", page |-> NoPage, bytes |-> <<>>]
PageFile(data) == [kind |-> "page", page |-> data, bytes |-> <<>>]
BytesFile(b) == [kind |-> "bytes", page |-> NoPage, bytes |-> b]

\* path and each of its ancestors, outermost first
Ancestors(path) ==
    LET es == SplitN(path, Sep, -1)
    IN  [i \in 1..Len(es) |-> JoinStr(Slice(es, 1, i), Sep)]

\* os.MkdirAll: create path and the missing directories above it; fails at a
\* component that is a regular file, keeping what it created so far
RECURSIVE MkdirAllFrom(_, _, _)
MkdirAllFrom(disk, ps, i) ==
    IF i > Len(ps) THEN [ok |-> TRUE, fs |-> disk]
    ELSE IF ps[i] \in DOMAIN disk.files THEN [ok |-> FALSE, fs |-> disk]
    ELSE MkdirAllFrom([disk EXCEPT !.dirs = @ \cup {ps[i]}], ps, i + 1)

MkdirAll(disk, path) ==
    IF path = Dot THEN [ok |-> TRUE, fs |-> disk]
    ELSE MkdirAllFrom(disk, Ancestors(path), 1)

\* os.Create: the parent must be a directory and the path must not be one;
\* the file is created or truncated
Create(disk, path) ==
    IF (Dir(path) # Dot /\ Dir(path) \notin disk.dirs) \/ path \in disk.dirs
    THEN [ok |-> FALSE, fs |-> disk]
    ELSE [ok |-> TRUE, fs |-> [disk EXCEPT !.files = (path :> EmptyFile) @@ @]]

\* the file at path gets the content c
WriteFile(disk, path, c) == [disk EXCEPT !.files = (path :> c) @@ @]

\* os.ReadFile / os.Open of a source file: in the bounded trees every source
\* file holds its own path as text
ReadFile(path) == path

(***************************************************************************)
(* buildPages                                                              *)
(***************************************************************************)

\* goldmark.Convert of text without markup: one paragraph
Convert(text) == <<"<", "p", ">">> \o text \o <<"<", "/", "p", ">", "\n">>

\* renderMarkdown without its error paths
renderMarkdown(mdPath) == Convert(mdLinkToHTML(ReadFile(mdPath)))

\* the PageData buildPages assembles for the markdown file at path
PageData(tree, path) ==
    [Title |-> Base(TrimSuffix(path, DotMd)),
     HTML |-> renderMarkdown(path),
     Sidebar |-> generateSidebar(tree, ContentPath, path, 0),
     Rel |-> Rel(Dir(path), ContentPath).path]

\* buildPages' callback returns early, without building, for these entries
PageSkips(e) == e.isDir \/ ~HasSuffix(e.path, DotMd)

\* the faults that can be injected while visiting entry e of the content walk:
\* a directory whose listing fails, or a failing step of a page build
PageFaults(e) ==
    IF e.isDir THEN {"none", "walk"}
    ELSE IF PageSkips(e) THEN {"none"}
    ELSE {"none", "mkdir", "read", "convert", "create", "exec"}

\* writePage after os.Create returned cr: ExecuteTemplate writes the page, or
\* fails and leaves the created file
writePageCreated(cr, outPath, data, fault) ==
    IF ~cr.ok \/ fault = "exec" THEN [err |-> TRUE, fs |-> cr.fs, built |-> FALSE]
    ELSE [err |-> FALSE, fs |-> WriteFile(cr.fs, outPath, PageFile(data)), built |-> TRUE]

writePage(disk, outPath, data, fault) ==
    writePageCreated(IF fault = "create" THEN [ok |-> FALSE, fs |-> disk]
                     ELSE Create(disk, outPath),
                     outPath, data, fault)

\* the callback after MkdirAll returned mk: renderMarkdown, Rel, then writePage
BuildPageAfterMkdir(mk, tree, path, outPath, fault) ==
    IF ~mk.ok \/ fault \in {"read", "convert"} \/ ~Rel(Dir(path), ContentPath).ok
    THEN [err |-> TRUE, fs |-> mk.fs, built |-> FALSE]
    ELSE writePage(mk.fs, outPath, PageData(tree, path), fault)

\* the callback for a markdown file
BuildPage(disk, tree, path, outPath, fault) ==
    BuildPageAfterMkdir(IF fault = "mkdir" THEN [ok |-> FALSE, fs |-> disk]
                        ELSE MkdirAll(disk, Dir(outPath)),
                        tree, path, outPath, fault)

\* one call of buildPages' callback: [err, fs, built]
VisitPage(disk, tree, e, fault) ==
    IF fault = "walk" THEN [err |-> TRUE, fs |-> disk, built |-> FALSE]
    ELSE IF PageSkips(e) THEN [err |-> FALSE, fs |-> disk, built |-> FALSE]
    ELSE BuildPage(disk, tree, e.path, outputPath(e.path), fault)

\* the variant of the walk protocol that carries on after an error
WalkStopsNever(err) == FALSE

\* WalkDir and Walk stop at the first callback that returns an error, and
\* return that error
WalkStops(err) == err

(***************************************************************************)
(* copyStatic                                                              *)
(***************************************************************************)

StaticSrc == <<"s", "t", "a", "t", "i", "c">>
StaticDst == Join(BuildPath, <<"s", "t", "a", "t", "i", "c">>)

CopyFaults(e) ==
    IF e.isDir THEN {"none", "walk"} ELSE {"none", "open", "create", "copy"}

\* copyFile after os.Create returned cr: io.Copy writes the bytes, or fails
\* midway and leaves the created file
copyFileCreated(cr, src, dst, fault) ==
    IF ~cr.ok \/ fault = "copy" THEN [err |-> TRUE, fs |-> cr.fs]
    ELSE [err |-> FALSE, fs |-> WriteFile(cr.fs, dst, BytesFile(ReadFile(src)))]

\* copyFile: [err, fs]; os.Open, os.Create, io.Copy
copyFile(disk, src, dst, fault) ==
    IF fault = "open" THEN [err |-> TRUE, fs |-> disk]
    ELSE copyFileCreated(IF fault = "create" THEN [ok |-> FALSE, fs |-> disk]
                         ELSE Create(disk, dst),
                         src, dst, fault)

\* where copyStatic's callback copies the static file at path to
StaticOut(path) == Join(StaticDst, Rel(StaticSrc, path).path)

CopyResult(r) == [err |-> r.err, fs |-> r.fs, copied |-> ~r.err]

\* one call of copyStatic's callback: [err, fs, copied]
VisitStatic(disk, e, fault) ==
    IF fault = "walk" THEN [err |-> TRUE, fs |-> disk, copied |-> FALSE]
    ELSE IF e.isDir THEN [err |-> FALSE, fs |-> disk, copied |-> FALSE]
    ELSE CopyResult(copyFile(disk, e.path, StaticOut(e.path), fault))

\* the build's variables in the specifications that do not run the build
BuildOff ==
    /\ static = [dirs |-> {<<>>}, files |-> {}]
    /\ fs = [dirs |-> {}, files |-> <<>>]
    /\ pc = "off"
    /\ pos = 0
    /\ exit = -1
    /\ log = <<>>
(***************************************************************************)
(* Frontmatter extractor (the same function in both handlers)              *)
(***************************************************************************)

WhiteSpace == {" ", "\n", "\t", "\r"}

RECURSIVE TrimLeft(_)
TrimLeft(s) == IF Len(s) > 0 /\ s[1] \in WhiteSpace THEN TrimLeft(Tail(s)) ELSE s

RECURSIVE TrimRight(_)
TrimRight(s) ==
    IF Len(s) > 0 /\ s[Len(s)] \in WhiteSpace THEN TrimRight(Slice(s, 1, Len(s) - 1)) ELSE s

\* strings.TrimSpace
TrimSpace(s) == TrimRight(TrimLeft(s))

Delim == <<"-", "-", "-">>
ColonSpace == <<":", " ">>

\* a map[string]string: nil, or a function from keys to values
NilMap == [nil |-> TRUE, map |-> <<>>]
EmptyMap == [nil |-> FALSE, map |-> <<>>]

\* one line of a block mapping, "key: value" with a plain key and a plain
\* value: [err, key, val]
YamlPair(line, i) ==
    IF i < 1 \/ line[1] \in {"[", "-", ":"} \/ (Len(line) > i + 2 /\ line[i + 3] = "[")
    THEN [err |-> TRUE, key |-> <<>>, val |-> <<>>]
    ELSE [err |-> FALSE, key |-> Slice(line, 1, i), val |-> TrimSpace(From(line, i + 2))]

\* the lines of a document decoded into the map m, one after the other; a
\* line that is no pair and a repeated key are errors
RECURSIVE YamlLines(_, _)
YamlLinesWith(pair, rest, m) ==
    IF pair.err \/ pair.key \in DOMAIN m THEN [err |-> TRUE, fm |-> NilMap]
    ELSE YamlLines(rest, (pair.key :> pair.val) @@ m)

YamlLines(lines, m) ==
    IF Len(lines) = 0 THEN [err |-> FALSE, fm |-> [nil |-> FALSE, map |-> m]]
    ELSE YamlLinesWith(YamlPair(Head(lines), Index(Head(lines), ColonSpace)), Tail(lines), m)

\* yaml.Unmarshal into a nil map[string]string, for documents that are flat
\* block mappings: the empty document leaves the map nil; anything that is
\* not a mapping of plain scalars is an error
yamlUnmarshal(text) ==
    IF text = <<>> THEN [err |-> FALSE, fm |-> NilMap]
    ELSE YamlLines(SplitN(text, <<"\n">>, -1), <<>>)

\* the result of Unmarshal as parseFrontmatter returns it
FrontmatterOf(y) == IF y.err THEN NilMap ELSE y.fm

\* strings.SplitN(content, "---", 3)
FrontmatterParts(text) == SplitN(text, Delim, 3)

parseFrontmatterParts(parts) ==
    IF Len(parts) < 3 THEN NilMap
    ELSE FrontmatterOf(yamlUnmarshal(TrimSpace(parts[2])))

\* the variant without the test for the leading delimiter
parseFrontmatterNoPrefixTest(text) == parseFrontmatterParts(FrontmatterParts(text))

parseFrontmatterTrimmed(text) ==
    IF ~HasPrefix(text, Delim) THEN NilMap
    ELSE parseFrontmatterParts(FrontmatterParts(text))

parseFrontmatter(data) == parseFrontmatterTrimmed(TrimSpace(data))

(***************************************************************************)
(* The API handlers                                                        *)
(***************************************************************************)

ApiPrefix == <<"/", "a", "p", "i", "/">>
FILE_NOT_FOUND_ERROR_MESSAGE ==
    <<"f", "i", "l", "e", " ", "n", "o", "t", " ", "f", "o", "u", "n", "d">>
NotFoundMessage == <<"n", "o", "t", " ", "f", "o", "u", "n", "d">>
InternalErrorMessage ==
    <<"i", "n", "t", "e", "r", "n", "a", "l", " ", "e", "r", "r", "o", "r">>
MainBranch == <<"m", "a", "i", "n">>

\* json.Encoder.Encode of a map[string]string: null for the nil map, else
\* the keys in sorted order; one line
RECURSIVE JsonMembers(_, _)
JsonMembers(keys, m) ==
    IF Len(keys) = 0 THEN <<>>
    ELSE <<"\"">> \o Head(keys) \o <<"\"", ":", "\"">> \o m[Head(keys)] \o <<"\"">>
         \o (IF Len(keys) > 1 THEN <<",">> ELSE <<>>) \o JsonMembers(Tail(keys), m)

JsonEncode(fm) ==
    IF fm.nil THEN <<"n", "u", "l", "l", "\n">>
    ELSE <<"{">> \o JsonMembers(SortNames(DOMAIN fm.map), fm.map) \o <<"}", "\n">>

\* http.Error: the status, a plain-text content type, the message as one line
HttpError(message, code, target) ==
    [status |-> code, ctype |-> "text/plain; charset=utf-8", body |-> message \o <<"\n">>,
     target |-> target, fm |-> NilMap]

\* the variant that encodes the map as parseFrontmatter returned it
JsonResponseNoNilTest(fm, target) ==
    [status |-> 200, ctype |-> "application/json", body |-> JsonEncode(fm),
     target |-> target, fm |-> fm]

\* the handlers' last lines: the nil map replaced by an empty one, the
\* Content-Type set, the map encoded; the status stays the default 200
JsonResponse(fm, target) ==
    [status |-> 200, ctype |-> "application/json",
     body |-> JsonEncode(IF fm.nil THEN EmptyMap ELSE fm),
     target |-> target, fm |-> fm]

\* the local handler after os.ReadFile returned read = [err, data], err one
\* of "" (no error), "ENOENT", "EACCES", "EISDIR"
apiHandlerLocalRead(read, mdPath) ==
    IF read.err # "" THEN HttpError(FILE_NOT_FOUND_ERROR_MESSAGE, 404, mdPath)
    ELSE JsonResponse(parseFrontmatter(read.data), mdPath)

\* apiHandler of the local variant; target records the file it read, None
\* when it read nothing
apiHandlerLocalPath(path, read) ==
    IF path = <<>> THEN HttpError(NotFoundMessage, 404, None)
    ELSE apiHandlerLocalRead(read, ContentPath \o Sep \o path \o DotMd)

apiHandlerLocal(urlPath, read) == apiHandlerLocalPath(TrimPrefix(urlPath, ApiPrefix), read)

\* fetchWikiPage: [err, data] from what the fetch did: reply = [err, status,
\* body], err the message of a request or transport error, "" for none
fetchWikiPage(reply) ==
    IF reply.err # <<>> THEN [err |-> reply.err, data |-> <<>>]
    ELSE IF reply.status = 404 THEN [err |-> FILE_NOT_FOUND_ERROR_MESSAGE, data |-> <<>>]
    ELSE [err |-> <<>>, data |-> reply.body]

\* the remote handler after fetchWikiPage returned
apiHandlerRemoteFetched(fetched, url) ==
    IF fetched.err = FILE_NOT_FOUND_ERROR_MESSAGE
    THEN HttpError(FILE_NOT_FOUND_ERROR_MESSAGE, 404, url)
    ELSE IF fetched.err # <<>> THEN HttpError(InternalErrorMessage, 500, url)
    ELSE JsonResponse(parseFrontmatter(fetched.data), url)

\* the part of REPO_URL that varies: <branch>/content/<path>
RepoUrl(branch, path) == branch \o Sep \o ContentPath \o Sep \o path

apiHandlerRemotePath(path, branch, reply) ==
    IF path = <<>> THEN HttpError(NotFoundMessage, 404, None)
    ELSE apiHandlerRemoteFetched(fetchWikiPage(reply),
                                 RepoUrl(IF branch = <<>> THEN MainBranch ELSE branch,
                                         path \o DotMd))

\* apiHandler of the remote variant; target records the URL fetched
apiHandlerRemote(urlPath, branch, reply) ==
    apiHandlerRemotePath(TrimPrefix(urlPath, ApiPrefix), branch, reply)

\* the handler's variables in the specifications that serve no request
ApiOff ==
    /\ request = <<>>
    /\ response = <<>>
(***************************************************************************)
(* The build process: main                                                 *)
(***************************************************************************)

MaxPages == 2
MaxStatic == 2

\* content files of the build: pages at two depths, an index page, a
\* non-markdown file, a page below a directory named static, below one named
\* a.html and below one whose name ends in .md
SiteCandidates ==
    {<<NameA>>, <<NameIndex>>, <<NameTxt>>, <<DirD, NameA>>,
     <<DirStatic, NameA>>, <<DirAHtml, NameA>>, <<DirXMd, NameA>>}

SiteTrees == {TreeOf(F) : F \in SubsetsUpTo(SiteCandidates, MaxPages)}

\* static files: at the top and inside a subdirectory; a static tree may also
\* hold an empty directory
StaticCandidates == {<<DirAHtml>>, <<NameCss>>, <<DirCss, NameCss>>}

StaticTrees ==
    {[dirs |-> TreeOf(F).dirs \cup extra, files |-> F] :
        F \in SubsetsUpTo(StaticCandidates, MaxStatic), extra \in {{}, {<<DirImg>>}}}

\* the build directory before the run: absent, or left by an earlier build
CleanDisk == [dirs |-> {}, files |-> <<>>]
EarlierBuild ==
    [dirs |-> {BuildPath, StaticDst, Join(StaticDst, DirCss)},
     files |-> (Join(BuildPath, <<"o", "l", "d", ".", "h", "t", "m", "l">>) :> StaleFile)]

StartLog ==
    [fault |-> "none",      \* the fault injected, if any
     failed |-> FALSE,      \* a step has returned an error
     after |-> 0,           \* callbacks run after the first error
     built |-> {},          \* markdown files whose page was written
     copyStarted |-> FALSE, \* copyStatic was called
     handed |-> {},         \* static files handed to copyFile
     copied |-> {},         \* static files copied
     made |-> {}]           \* directories copyStatic created

BuildInit ==
    /\ content \in SiteTrees
    /\ static \in StaticTrees
    /\ fs \in {CleanDisk, EarlierBuild}
    /\ pc = "main"
    /\ pos = 0
    /\ exit = -1
    /\ log = StartLog
    /\ currentPath = None /\ items = <<>> /\ walkErrAt = 0
    /\ md = <<>> /\ html = None /\ html2 = None /\ mdpc = "off"
    /\ ApiOff

\* os.Exit(1) after the printed message
Exit1 ==
    /\ pc' = "exited"
    /\ exit' = 1

\* main: mustLoadTemplates, which fails when a template is missing or does
\* not parse
LoadTemplates ==
    /\ pc = "main"
    /\ \E ok \in BOOLEAN :
          IF ok
          THEN /\ pc' = "buildPages"
               /\ pos' = 1
               /\ UNCHANGED <<exit, log>>
          ELSE /\ Exit1
               /\ log' = [log EXCEPT !.fault = "templates", !.failed = TRUE]
               /\ UNCHANGED pos
    /\ UNCHANGED <<content, static, fs, currentPath, items, walkErrAt, mdVars, apiVars>>

\* the log after a callback that returned err under the injected fault
Logged(fault, err) ==
    [log EXCEPT !.fault = IF fault # "none" THEN fault ELSE @,
                !.failed = @ \/ err,
                !.after = IF log.failed THEN @ + 1 ELSE @]

\* after a callback returned err: the walk moves on, or it stops and main
\* exits with code 1
WalkStep(err) ==
    IF WalkStops(err)
    THEN Exit1 /\ UNCHANGED pos
    ELSE pos' = pos + 1 /\ UNCHANGED <<pc, exit>>

PageVisited(e, fault, r) ==
    /\ fs' = r.fs
    /\ log' = [Logged(fault, r.err) EXCEPT !.built = IF r.built THEN @ \cup {e.path} ELSE @]
    /\ WalkStep(r.err)

PagesWalkNext(walk) ==
    /\ pos <= Len(walk)
    /\ \E fault \in PageFaults(walk[pos]) :
          PageVisited(walk[pos], fault, VisitPage(fs, content, walk[pos], fault))

\* buildPages: the walk's callback on the next entry of the content tree
BuildPagesVisit ==
    /\ pc = "buildPages"
    /\ PagesWalkNext(WalkDir(content, ContentPath))
    /\ UNCHANGED <<content, static, currentPath, items, walkErrAt, mdVars, apiVars>>

StaticDirMade(fault, mk) ==
    /\ fs' = mk.fs
    /\ log' = [Logged(fault, ~mk.ok) EXCEPT !.copyStarted = TRUE,
                                            !.made = mk.fs.dirs \ fs.dirs]
    /\ IF mk.ok
       THEN pc' = "copyStatic" /\ pos' = 1 /\ UNCHANGED exit
       ELSE Exit1 /\ UNCHANGED pos

\* copyStatic is called once buildPages has returned nil; it starts with
\* MkdirAll of build/static
CopyStaticMkdir ==
    /\ pc = "buildPages"
    /\ pos > Len(WalkDir(content, ContentPath))
    /\ \E fault \in {"none", "mkdir"} :
          StaticDirMade(fault, IF fault = "mkdir" THEN [ok |-> FALSE, fs |-> fs]
                               ELSE MkdirAll(fs, StaticDst))
    /\ UNCHANGED <<content, static, currentPath, items, walkErrAt, mdVars, apiVars>>

StaticVisited(e, fault, r) ==
    /\ fs' = r.fs
    /\ log' = [Logged(fault, r.err) EXCEPT
                  !.handed = IF ~e.isDir /\ fault # "walk" THEN @ \cup {e.path} ELSE @,
                  !.copied = IF r.copied THEN @ \cup {e.path} ELSE @,
                  !.made = @ \cup (r.fs.dirs \ fs.dirs)]
    /\ WalkStep(r.err)

StaticWalkNext(walk) ==
    /\ pos <= Len(walk)
    /\ \E fault \in CopyFaults(walk[pos]) :
          StaticVisited(walk[pos], fault, VisitStatic(fs, walk[pos], fault))

\* copyStatic: the walk's callback on the next entry of the static tree
CopyStaticVisit ==
    /\ pc = "copyStatic"
    /\ StaticWalkNext(WalkDir(static, StaticSrc))
    /\ UNCHANGED <<content, static, currentPath, items, walkErrAt, mdVars, apiVars>>

\* main returns after copyStatic returned nil: exit code 0
MainReturns ==
    /\ pc = "copyStatic"
    /\ pos > Len(WalkDir(static, StaticSrc))
    /\ pc' = "exited"
    /\ exit' = 0
    /\ UNCHANGED <<content, static, fs, pos, log, currentPath, items, walkErrAt, mdVars, apiVars>>

BuildNext ==
    \/ LoadTemplates
    \/ BuildPagesVisit
    \/ CopyStaticMkdir
    \/ CopyStaticVisit
    \/ MainReturns

Spec == BuildInit /\ [][BuildNext]_vars

Pages == MarkdownFiles(content, ContentPath)

StaticFiles == {PathOf(StaticSrc, s) : s \in static.files}

\* the build ran to its end: both stages returned nil and main returned
BuildSucceeded == pc = "exited" /\ exit = 0

HoldsPageOf(F) ==
    /\ outputPath(F) \in DOMAIN fs.files
    /\ fs.files[outputPath(F)] = PageFile(PageData(content, F))

\* C1 (as claimed): after a build that completes without error the build tree
\* holds, for every markdown file F, the page generated from F at its output
\* path; output paths of distinct markdown files differ; and no page is built
\* for a directory or for a file that does not end in .md
C1_EveryPageInBuildTree ==
    /\ BuildSucceeded => \A F \in Pages : HoldsPageOf(F)
    /\ \A F, G \in Pages : F # G => outputPath(F) # outputPath(G)
    /\ log.built \subseteq Pages

\* C6: the build is fail-fast and ordered. An injected fault or a failing
\* step makes main exit with code 1 at once, no callback runs after the
\* first error, the pages built are the markdown files up to some point of
\* the walk, copyStatic starts only after every page was built, and exit
\* code 0 means that every page was built and every static file copied
C6_FailFastOrdered ==
    /\ log.fault # "none" => log.failed
    /\ log.failed => (pc = "exited" /\ exit = 1 /\ log.after = 0)
    /\ exit = 1 => log.failed
    /\ log.built \subseteq Pages
    /\ \A p \in log.built : \A q \in Pages : WalkedBefore(q, p) => q \in log.built
    /\ log.copyStarted => log.built = Pages
    /\ log.copied # {} => log.copyStarted
    /\ \A p \in log.copied : \A q \in StaticFiles : WalkedBefore(q, p) => q \in log.copied
    /\ BuildSucceeded =>
          (~log.failed /\ log.built = Pages /\ log.copyStarted /\ log.copied = StaticFiles)

\* a page build failed after an earlier page was built: the later pages and
\* the static copy were never started
C6_Witness ==
    /\ exit = 1
    /\ log.fault = "exec"
    /\ Cardinality(log.built) = 1
    /\ Cardinality(Pages) = 2
    /\ ~log.copyStarted
    /\ static.files # {}

\* the directories above path, path itself excluded
ParentsOf(path) == {Ancestors(path)[i] : i \in 1..(Len(Ancestors(path)) - 1)}

MaxMdLen == 6
MdAlphabet == {".", "m", "d", "h"}

RECURSIVE StringsUpTo(_, _)
StringsUpTo(alphabet, n) ==
    IF n = 0 THEN {<<>>}
    ELSE LET shorter == StringsUpTo(alphabet, n - 1)
         IN  shorter \cup {Append(s, c) : s \in {t \in shorter : Len(t) = n - 1}, c \in alphabet}

MdInit ==
    /\ md \in StringsUpTo(MdAlphabet, MaxMdLen)
    /\ html = None
    /\ html2 = None
    /\ mdpc = "read"
    /\ content = TreeOf({}) /\ currentPath = None /\ items = <<>> /\ walkErrAt = 0
    /\ BuildOff
    /\ ApiOff

\* renderMarkdown's call of mdLinkToHTML on the bytes read
MdRewrite ==
    /\ mdpc = "read"
    /\ html' = mdLinkToHTML(md)
    /\ mdpc' = "rewritten"
    /\ UNCHANGED <<md, html2, sidebarVars, buildVars, apiVars>>

\* the rewritten bytes fed through mdLinkToHTML once more
MdRewriteAgain ==
    /\ mdpc = "rewritten"
    /\ html2' = mdLinkToHTML(html)
    /\ mdpc' = "twice"
    /\ UNCHANGED <<md, html, sidebarVars, buildVars, apiVars>>

MdNext == MdRewrite \/ MdRewriteAgain

SpecMd == MdInit /\ [][MdNext]_vars

\* the positions (1-based) where an occurrence of .md starts
Occurrences(s) == {i \in 1..(Len(s) - 2) : Slice(s, i, i + 2) = DotMd}

\* s with the characters of every occurrence of .md replaced, position by
\* position, and every other character kept
RECURSIVE RewrittenFrom(_, _)
RewrittenFrom(s, i) ==
    IF i > Len(s) THEN <<>>
    ELSE IF i \in Occurrences(s) THEN DotHtml \o RewrittenFrom(s, i + 3)
    ELSE <<s[i]>> \o RewrittenFrom(s, i + 1)

\* C7: mdLinkToHTML replaces every occurrence of .md by .html and keeps every
\* other character, its result holds no .md, and a second application
\* changes nothing
C7_RewriteAll ==
    /\ mdpc # "read" =>
          /\ html = RewrittenFrom(md, 1)
          /\ Occurrences(html) = {}
          /\ Len(html) = Len(md) + 2 * Cardinality(Occurrences(md))
    /\ mdpc = "twice" => html2 = html

\* two occurrences were rewritten, and the rewrite was applied twice
C7_Witness ==
    /\ mdpc = "twice"
    /\ Cardinality(Occurrences(md)) = 2
    /\ html # md

(***************************************************************************)
(* Sidebar generation over bounded content trees                           *)
(***************************************************************************)

MaxFiles == 3

\* the files a content tree may hold: markdown, index pages, a file whose name
\* merely contains "index", a file named just ".md", a non-markdown file, at
\* depths 0 to 2, and a file below a directory whose own name ends in .md
ContentCandidates ==
    {<<NameA>>, <<NameIndex>>, <<NameXIndex>>, <<DotMd>>, <<NameTxt>>,
     <<DirD, NameA>>, <<DirD, NameIndex>>, <<DirD, DotMd>>, <<DirD, NameTxt>>,
     <<DirD, DirE, NameA>>, <<DirD, DirE, NameIndex>>,
     <<DirXMd, NameA>>}

ContentTrees == {TreeOf(F) : F \in SubsetsUpTo(ContentCandidates, MaxFiles)}

SidebarInit ==
    /\ content \in ContentTrees
    /\ currentPath = None
    /\ items = <<>>
    /\ walkErrAt = 0
    /\ md = <<>> /\ html = None /\ html2 = None /\ mdpc = "off"
    /\ BuildOff
    /\ ApiOff

\* where a walk can report an error to its callback: nowhere (0), or at a
\* directory whose listing cannot be read (the root included)
WalkErrors(entries) == {0} \cup {i \in 1..Len(entries) : entries[i].isDir}

\* buildPages reaches the markdown file p and builds its sidebar; the
\* sidebar's own walk may fail at entry e (0: no failure). One page is
\* followed per behaviour.
GenerateSidebar ==
    /\ currentPath = None
    /\ \E p \in MarkdownFiles(content, ContentPath) :
       \E e \in WalkErrors(WalkDir(content, ContentPath)) :
          /\ currentPath' = p
          /\ walkErrAt' = e
          /\ items' = generateSidebar(content, ContentPath, p, e)
    /\ UNCHANGED <<content, mdVars, buildVars, apiVars>>

SidebarNext == GenerateSidebar

SpecSidebar == SidebarInit /\ [][SidebarNext]_vars

ItemIndexes == 1..Len(items)

\* C2: no sidebar entry is derived from a file named index.md, at any depth,
\* and no entry links to an index page
C2_NoIndexEntry ==
    \A i \in ItemIndexes :
        /\ Base(items[i].Src) # NameIndex
        /\ Base(items[i].Link) # RootPage \o DotHtml

\* a page in a subdirectory got a non-empty sidebar although an index.md lies
\* in a subdirectory of the tree
C2_Witness ==
    /\ currentPath # None
    /\ Len(items) > 0
    /\ walkErrAt = 0
    /\ \E f \in content.files : Len(f) > 1 /\ f[Len(f)] = NameIndex

\* the files the sidebar is to list: regular, ending in .md, no "index" in the path
Listed(tree) ==
    {p \in MarkdownFiles(tree, ContentPath) : ~Contains(p, RootPage)}

\* C9: without a traversal error the sidebar of any page lists exactly the
\* markdown files whose path holds no "index", once each, in walk order
C9_ExactlyListedInWalkOrder ==
    (currentPath # None /\ walkErrAt = 0) =>
        /\ {items[i].Src : i \in ItemIndexes} = Listed(content)
        /\ Len(items) = Cardinality(Listed(content))
        /\ \A i, j \in ItemIndexes : i < j => WalkedBefore(items[i].Src, items[j].Src)

\* two files are listed, one below a directory, and a third is left out for
\* holding "index" in its name
C9_Witness ==
    /\ currentPath # None /\ walkErrAt = 0
    /\ Len(items) = 2
    /\ \E i \in ItemIndexes : Len(SplitN(items[i].Src, Sep, -1)) > 2

\* what a browser makes of link on a page stored in directory dir
ResolveLink(dir, link) == Clean(dir \o Sep \o link)

\* C10 (as claimed): every entry's link ends in .html, its title is the
\* target's file name without .md, and the link resolves from the page's
\* output directory to the target's output path
C10_LinkAndTitle ==
    currentPath # None =>
        \A i \in ItemIndexes :
            /\ HasSuffix(items[i].Link, DotHtml)
            /\ items[i].Title = TrimSuffix(Base(items[i].Src), DotMd)
            /\ ResolveLink(Dir(outputPath(currentPath)), items[i].Link)
                  = outputPath(items[i].Src)

\* C10 (amended): every entry's link ends in .html and resolves from the
\* page's output directory to the target's output path; the title is the last
\* element of the link without .html, which is the target's file name without
\* .md unless the target is named just ".md"
C10_LinkAndTitleAmended ==
    currentPath # None =>
        \A i \in ItemIndexes :
            /\ HasSuffix(items[i].Link, DotHtml)
            /\ items[i].Title = Base(TrimSuffix(items[i].Link, DotHtml))
            /\ Base(items[i].Src) # DotMd =>
                  items[i].Title = TrimSuffix(Base(items[i].Src), DotMd)
            /\ ResolveLink(Dir(outputPath(currentPath)), items[i].Link)
                  = outputPath(items[i].Src)

\* a page two directories down links to a page in another directory, and to
\* a file named just ".md", whose title is its directory's name
C10_Witness ==
    /\ currentPath # None
    /\ Len(SplitN(currentPath, Sep, -1)) = 4
    /\ \E i \in ItemIndexes :
          /\ Dir(items[i].Src) # Dir(currentPath)
          /\ Base(items[i].Src) # DotMd
          /\ HasPrefix(items[i].Link, DotDot)
    /\ \E i \in ItemIndexes :
          /\ Base(items[i].Src) = DotMd
          /\ items[i].Title = DirD
(***************************************************************************)
(* The API handlers over bounded requests and documents                    *)
(***************************************************************************)

MaxYamlLines == 2

YamlLineChoices ==
    {<<"k", ":", " ", "v">>, <<"t", ":", " ", "u">>, <<"k", ":", " ", "[", "v">>, <<"k">>}

RECURSIVE LineSeqs(_)
LineSeqs(n) ==
    IF n = 0 THEN {<<>>}
    ELSE LineSeqs(n - 1) \cup
         {Append(ls, l) : ls \in {x \in LineSeqs(n - 1) : Len(x) = n - 1}, l \in YamlLineChoices}

\* the text between the delimiters: no line, or lines each on its own line
YamlBlocks ==
    {IF ls = <<>> THEN <<>> ELSE <<"\n">> \o JoinStr(ls, <<"\n">>) \o <<"\n">> :
        ls \in LineSeqs(MaxYamlLines)}

\* documents: optional leading blank line; a delimiter, a wrong one or none;
\* a block; a closing delimiter or none; a body, which may hold further
\* delimiters
Documents ==
    {lead \o opener \o block \o closer \o body :
        lead \in {<<>>, <<"\n">>},
        opener \in {Delim, <<"-", "-">>, <<>>, <<"-", "-", "-", "-">>},
        block \in YamlBlocks,
        closer \in {Delim, <<>>},
        body \in {<<>>, <<"\n", "t", ":", " ", "u", "-", "-", "-", "x", "\n">>}}

UrlPaths == {ApiPrefix, ApiPrefix \o <<"a">>, <<"/", "a">>}

TransportError == <<"f", "e", "t", "c", "h", " ", "f", "a", "i", "l", "e", "d">>

NoRead == [err |-> "", data |-> <<>>]
NoReply == [err |-> <<>>, status |-> 0, body |-> <<>>]

\* what os.ReadFile answers to the local handler
Reads ==
    {[err |-> e, data |-> <<>>] : e \in {"ENOENT", "EACCES", "EISDIR"}}
        \cup {[err |-> "", data |-> d] : d \in Documents}

\* what the fetch answers to the remote handler
Replies ==
    {[err |-> TransportError, status |-> 0, body |-> <<>>],
     [err |-> <<>>, status |-> 404, body |-> <<>>]}
        \cup {[err |-> <<>>, status |-> 200, body |-> d] : d \in Documents}

ApiInit ==
    /\ request = <<>>
    /\ response = <<>>
    /\ content = TreeOf({}) /\ currentPath = None /\ items = <<>> /\ walkErrAt = 0
    /\ md = <<>> /\ html = None /\ html2 = None /\ mdpc = "off"
    /\ BuildOff

\* one request served by the local variant
ServeLocal ==
    /\ request = <<>>
    /\ \E url \in UrlPaths, read \in Reads :
          /\ request' = [variant |-> "local", urlPath |-> url, branch |-> <<>>,
                         read |-> read, reply |-> NoReply]
          /\ response' = apiHandlerLocal(url, read)
    /\ UNCHANGED <<mdVars, sidebarVars, buildVars>>

\* one request served by the remote variant
ServeRemote ==
    /\ request = <<>>
    /\ \E url \in UrlPaths, branch \in {<<>>, <<"d", "e", "v">>}, reply \in Replies :
          /\ request' = [variant |-> "remote", urlPath |-> url, branch |-> branch,
                         read |-> NoRead, reply |-> reply]
          /\ response' = apiHandlerRemote(url, branch, reply)
    /\ UNCHANGED <<mdVars, sidebarVars, buildVars>>

ApiNext == ServeLocal \/ ServeRemote

SpecApi == ApiInit /\ [][ApiNext]_vars

Served == request # <<>>

RequestPath == TrimPrefix(request.urlPath, ApiPrefix)

\* the resource does not exist
ResourceMissing ==
    IF request.variant = "local" THEN request.read.err = "ENOENT"
    ELSE request.reply.err = <<>> /\ request.reply.status = 404

\* reading or fetching failed for another reason
ResourceFailed ==
    IF request.variant = "local" THEN request.read.err \in {"EACCES", "EISDIR"}
    ELSE request.reply.err # <<>>

\* the handler obtained the resource
ResourceObtained == RequestPath # <<>> /\ ~ResourceMissing /\ ~ResourceFailed

ResourceData ==
    IF request.variant = "local" THEN request.read.data ELSE request.reply.body

Line(message) == message \o <<"\n">>

\* C3 (as claimed): in both variants an empty path gives 404 "not found"
\* without any read or fetch, a missing resource gives 404 "file not found",
\* and any other read or fetch failure gives 500 "internal error"
C3_ErrorResponses ==
    Served =>
        /\ RequestPath = <<>> =>
              /\ response.status = 404
              /\ response.body = Line(NotFoundMessage)
              /\ response.target = None
        /\ (RequestPath # <<>> /\ ResourceMissing) =>
              /\ response.status = 404
              /\ response.body = Line(FILE_NOT_FOUND_ERROR_MESSAGE)
        /\ (RequestPath # <<>> /\ ResourceFailed) =>
              /\ response.status = 500
              /\ response.body = Line(InternalErrorMessage)

\* the text between the leading delimiter and the next one, trimmed and
\* decoded; nil without a leading delimiter, without a second one, or when
\* the text is no YAML mapping
FrontmatterBetween(after, i) ==
    IF i < 0 THEN NilMap
    ELSE FrontmatterOf(yamlUnmarshal(TrimSpace(Slice(after, 1, i))))

ExpectedFrontmatter(data) ==
    IF ~HasPrefix(TrimSpace(data), Delim) THEN NilMap
    ELSE FrontmatterBetween(From(TrimSpace(data), 3), Index(From(TrimSpace(data), 3), Delim))

\* C4: parseFrontmatter returns nil when the trimmed content has no leading
\* delimiter, when the split yields fewer than three segments and when the
\* YAML is invalid, and else the mapping decoded from the trimmed text
\* between the leading delimiter and the next one
C4_FrontmatterExtracted ==
    (Served /\ ResourceObtained) =>
        /\ response.fm = ExpectedFrontmatter(ResourceData)
        /\ ~HasPrefix(TrimSpace(ResourceData), Delim) => response.fm = NilMap
        /\ Len(SplitN(TrimSpace(ResourceData), Delim, 3)) < 3 => response.fm = NilMap

\* a block of two pairs, preceded by a blank line and followed by a body that
\* holds a further delimiter, was decoded
C4_Witness ==
    /\ Served /\ ResourceObtained
    /\ ~response.fm.nil
    /\ Cardinality(DOMAIN response.fm.map) = 2
    /\ ResourceData[1] = "\n"
    /\ Len(SplitN(ResourceData, Delim, -1)) > 3

EmptyObject == <<"{", "}", "\n">>

\* C5: whenever the handler obtained the resource the status is 200, the
\* Content-Type is application/json and the body is the JSON object of the
\* frontmatter, the empty object when there is none
C5_JsonOnSuccess ==
    (Served /\ ResourceObtained) =>
        /\ response.status = 200
        /\ response.ctype = "application/json"
        /\ response.body[1] = "{"
        /\ ExpectedFrontmatter(ResourceData).nil => response.body = EmptyObject
        /\ ~ExpectedFrontmatter(ResourceData).nil =>
              response.body = JsonEncode(ExpectedFrontmatter(ResourceData))

\* the remote handler answered {} for a block of invalid YAML
C5_Witness ==
    /\ Served /\ ResourceObtained
    /\ request.variant = "remote"
    /\ HasPrefix(ResourceData, Delim)
    /\ Len(SplitN(ResourceData, Delim, 3)) = 3
    /\ yamlUnmarshal(TrimSpace(SplitN(ResourceData, Delim, 3)[2])).err
    /\ response.body = EmptyObject
====
